---------------------------- MODULE Spec2Model ----------------------------
(***************************************************************************)
(* Model of the MicroShard UUID codec (implementations/rust/src/lib.rs).   *)
(*                                                                         *)
(* Machine words (u8, u32, u64, u128) are sequences of bits, least         *)
(* significant bit first: bit k of a word x is x[k+1].  Shifts, masks and  *)
(* the arithmetic the code performs on them are carried out on the bits,   *)
(* so every word keeps its width.  Texts are sequences of bytes, an ASCII  *)
(* byte written as its one-character string.                               *)
(***************************************************************************)
EXTENDS Integers, Sequences, FiniteSets

(***************************************************************************)
(* Words                                                                   *)
(***************************************************************************)
\* A sequence given as a function on 1..n, as a tuple.
Tup(f, n) == SubSeq(f, 1, n)

Zeros(n) == Tup([i \in 1..n |-> 0], n)

\* The word of width w with its n low bits set (0x3F is Mask(6, 64)).
Mask(n, w) == Tup([i \in 1..w |-> IF i <= n THEN 1 ELSE 0], w)

\* x >> n and x << n on a word of fixed width (bits shifted out are lost).
Shr(x, n) == IF n >= Len(x) THEN Zeros(Len(x))
             ELSE SubSeq(x, n + 1, Len(x)) \o Zeros(n)

Shl(x, n) == IF n >= Len(x) THEN Zeros(Len(x))
             ELSE Zeros(n) \o SubSeq(x, 1, Len(x) - n)

BitAnd(x, y) ==
    Tup([i \in 1..Len(x) |-> IF x[i] = 1 /\ y[i] = 1 THEN 1 ELSE 0], Len(x))

BitOr(x, y) ==
    Tup([i \in 1..Len(x) |-> IF x[i] = 1 \/ y[i] = 1 THEN 1 ELSE 0], Len(x))

BitXor(x, y) ==
    Tup([i \in 1..Len(x) |-> IF x[i] # y[i] THEN 1 ELSE 0], Len(x))

\* `x as uN`: truncation to a narrower type, zero extension to a wider one.
Cast(x, w) == IF w <= Len(x) THEN SubSeq(x, 1, w)
              ELSE x \o Zeros(w - Len(x))

\* Unsigned comparison, decided at the most significant differing bit.
RECURSIVE LessFrom(_, _, _)
LessFrom(x, y, i) ==
    IF i = 0 THEN FALSE
    ELSE IF x[i] # y[i] THEN x[i] < y[i]
    ELSE LessFrom(x, y, i - 1)

Less(x, y) == LessFrom(x, y, Len(x))

\* Arithmetic works on a word's bytes (limbs of eight bits, least
\* significant first), so that every intermediate number stays small.
Limbs(x) ==
    [j \in 1..(Len(x) \div 8) |->
        x[8*j - 7] + 2 * x[8*j - 6] + 4 * x[8*j - 5] + 8 * x[8*j - 4]
        + 16 * x[8*j - 3] + 32 * x[8*j - 2] + 64 * x[8*j - 1] + 128 * x[8*j]]

Unlimbs(l) ==
    Tup([i \in 1..(8 * Len(l)) |->
            (l[((i - 1) \div 8) + 1] \div 2^((i - 1) % 8)) % 2], 8 * Len(l))

\* x * k (wrapping at the width of x) for a small multiplier k (k < 2^22).
RECURSIVE MulLimbs(_, _, _, _)
MulLimbs(l, k, i, carry) ==
    IF i > Len(l) THEN <<>>
    ELSE LET t == l[i] * k + carry
         IN  <<t % 256>> \o MulLimbs(l, k, i + 1, t \div 256)

MulSmall(x, k) == Unlimbs(MulLimbs(Limbs(x), k, 1, 0))

\* x + n (wrapping) for a small addend n.
RECURSIVE AddLimbs(_, _, _)
AddLimbs(l, i, carry) ==
    IF i > Len(l) THEN <<>>
    ELSE LET t == l[i] + carry
         IN  <<t % 256>> \o AddLimbs(l, i + 1, t \div 256)

AddSmall(x, n) == Unlimbs(AddLimbs(Limbs(x), 1, n))

\* x + y (wrapping).
RECURSIVE AddLimbs2(_, _, _, _)
AddLimbs2(l, m, i, carry) ==
    IF i > Len(l) THEN <<>>
    ELSE LET t == l[i] + m[i] + carry
         IN  <<t % 256>> \o AddLimbs2(l, m, i + 1, t \div 256)

Add(x, y) == Unlimbs(AddLimbs2(Limbs(x), Limbs(y), 1, 0))

\* Quotient (a word) and remainder (a number) of x by a small divisor d
\* (d < 2^22): long division from the most significant byte.  The result of
\* DivLimbs holds the quotient's bytes followed by the remainder.
RECURSIVE DivLimbs(_, _, _, _)
DivLimbs(l, d, i, r) ==
    IF i = 0 THEN <<r>>
    ELSE LET t    == r * 256 + l[i]
             rest == DivLimbs(l, d, i - 1, t % d)
         IN  rest \o <<t \div d>>

DivMod(x, d) ==
    LET n   == Len(x) \div 8
        res == DivLimbs(Limbs(x), d, n, 0)
    IN  [q |-> Unlimbs([j \in 1..n |-> res[j + 1]]), r |-> res[1]]

\* The word of width w holding the small number n (n < 2^31).
NatToWord(n, w) ==
    Tup([i \in 1..w |-> IF i <= 31 THEN (n \div 2^(i - 1)) % 2 ELSE 0], w)

\* The number a word holds; used only where the value is below 2^31.
WordToNat(x) ==
    LET l == Limbs(x \o Zeros(32))
    IN  l[1] + 256 * l[2] + 65536 * l[3] + 16777216 * l[4]

\* A decimal literal of the source as a word of width w, read three digits
\* at a time the way the source groups them (4_294_967_295).
RECURSIVE DecFrom(_, _, _)
DecFrom(gs, i, acc) ==
    IF i > Len(gs) THEN acc
    ELSE LET next == AddSmall(MulSmall(acc, 1000), gs[i])
         IN  \* next is worked out before the recursion goes on
             IF Len(next) = Len(acc) THEN DecFrom(gs, i + 1, next) ELSE acc

Dec(gs, w) == DecFrom(gs, 1, Zeros(w))

\* A hexadecimal literal of the source as a word, sixteen bits at a time,
\* most significant group first (0xCAFEBABE is Hex(<<\hCAFE, \hBABE>>, 64)).
RECURSIVE HexFrom(_, _)
HexFrom(gs, i) ==
    IF i = 0 THEN <<>>
    ELSE SubSeq(NatToWord(gs[i], 16), 1, 16) \o HexFrom(gs, i - 1)

Hex(gs, w) == Cast(HexFrom(gs, Len(gs)), w)

(***************************************************************************)
(* Constants & Configuration                                               *)
(***************************************************************************)
\* const MAX_SHARD_ID: u32 = 4_294_967_295
MAX_SHARD_ID == Dec(<<4, 294, 967, 295>>, 32)

\* const MAX_TIME_MICROS: u64 = 18_014_398_509_481_983
MAX_TIME_MICROS == Dec(<<18, 14, 398, 509, 481, 983>>, 64)

\* const MAX_RANDOM: u64 = 68_719_476_735
MAX_RANDOM == Dec(<<68, 719, 476, 735>>, 64)

(***************************************************************************)
(* Results                                                                 *)
(***************************************************************************)
Ok(v) == [tag |-> "Ok", v |-> v]

Err(e, n) == [tag |-> "Err", err |-> e, val |-> n]

\* The call did not return: the thread panicked.
Panic == [tag |-> "Panic"]

None == [tag |-> "None"]

IsOk(r) == r.tag = "Ok"


(***************************************************************************)
(* Internal: Minimal PRNG (Xorshift64* )                                   *)
(***************************************************************************)
\* x.wrapping_mul(y) on u64: the product modulo 2^64, sixteen bits of y at
\* a time.
RECURSIVE WrappingMulFrom(_, _, _, _)
WrappingMulFrom(x, y, j, acc) ==
    IF 16 * j >= Len(y) THEN acc
    ELSE LET chunk == WordToNat(SubSeq(y, 16 * j + 1, 16 * j + 16))
             next  == Add(acc, Shl(MulSmall(x, chunk), 16 * j))
         IN  \* next is worked out before the recursion goes on
             IF Len(next) = Len(acc) THEN WrappingMulFrom(x, y, j + 1, next)
             ELSE acc

WrappingMul(x, y) == WrappingMulFrom(x, y, 0, Zeros(Len(x)))

\* SimpleRng::new.  now is the clock reading in nanoseconds (u128), ptr the
\* address of the stack slot that holds it (u64); both are inputs.
\* SimpleRng::new without the fallback for a zero state.
SimpleRng_new_no_fallback(now, ptr) == [state |-> BitXor(Cast(now, 64), ptr)]

SimpleRng_new(now, ptr) ==
    LET state == BitXor(Cast(now, 64), ptr)
    IN  IF state = Zeros(64)
        THEN [state |-> Hex(<<\hCAFE, \hBABE>>, 64)]
        ELSE [state |-> state]

\* Step 1 of next_u64, the xorshift: the state the draw leaves.
xorshift(x0) ==
    LET x1 == BitXor(x0, Shr(x0, 12))
        x2 == BitXor(x1, Shl(x1, 25))
    IN  BitXor(x2, Shr(x2, 27))

\* SimpleRng::next_u64: the generator after the draw, and the value drawn.
next_u64_of(x) ==
    [rng |-> [state |-> x],
     out |-> WrappingMul(x, Hex(<<\h2545, \hF491, \h4F6C, \hDD1D>>, 64))]

next_u64(rng) == next_u64_of(xorshift(rng.state))

(***************************************************************************)
(* Core Struct: MicroShardUUID (a u128)                                    *)
(***************************************************************************)
validate_shard(shard_id) ==
    IF Less(MAX_SHARD_ID, shard_id)
    THEN Err("InvalidShardId", MAX_SHARD_ID)
    ELSE Ok(<<>>)

\* pack with the variant one bit too low.
pack_variant61(micros, shard_id, rnd_val) ==
    LET shard_id_64 == Cast(shard_id, 64)
        \* --- High 64 Bits ---
        time_high   == BitAnd(Shr(micros, 6), Mask(48, 64))
        time_low    == BitAnd(micros, Mask(6, 64))
        shard_high  == BitAnd(Shr(shard_id_64, 26), Mask(6, 64))
        high_64     == BitOr(BitOr(BitOr(Shl(time_high, 16),
                                         Shl(NatToWord(8, 64), 12)),
                                   Shl(time_low, 6)),
                             shard_high)
        \* --- Low 64 Bits ---
        shard_low   == BitAnd(shard_id_64, Mask(26, 64))
        low_64      == BitOr(BitOr(Shl(NatToWord(2, 64), 61),
                                   Shl(shard_low, 36)),
                             rnd_val)
    IN  BitOr(Shl(Cast(high_64, 128), 64), Cast(low_64, 128))

\* pack with time_low and shard_high in each other's place.
pack_swapped(micros, shard_id, rnd_val) ==
    LET shard_id_64 == Cast(shard_id, 64)
        \* --- High 64 Bits ---
        time_high   == BitAnd(Shr(micros, 6), Mask(48, 64))
        time_low    == BitAnd(micros, Mask(6, 64))
        shard_high  == BitAnd(Shr(shard_id_64, 26), Mask(6, 64))
        high_64     == BitOr(BitOr(BitOr(Shl(time_high, 16),
                                         Shl(NatToWord(8, 64), 12)),
                                   Shl(shard_high, 6)),
                             time_low)
        \* --- Low 64 Bits ---
        shard_low   == BitAnd(shard_id_64, Mask(26, 64))
        low_64      == BitOr(BitOr(Shl(NatToWord(2, 64), 62),
                                   Shl(shard_low, 36)),
                             rnd_val)
    IN  BitOr(Shl(Cast(high_64, 128), 64), Cast(low_64, 128))

\* The bit composition of MicroShardUUID::build (from `let shard_id_64`
\* to the end).
pack(micros, shard_id, rnd_val) ==
    LET shard_id_64 == Cast(shard_id, 64)
        \* --- High 64 Bits ---
        time_high   == BitAnd(Shr(micros, 6), Mask(48, 64))
        time_low    == BitAnd(micros, Mask(6, 64))
        shard_high  == BitAnd(Shr(shard_id_64, 26), Mask(6, 64))
        high_64     == BitOr(BitOr(BitOr(Shl(time_high, 16),
                                         Shl(NatToWord(8, 64), 12)),
                                   Shl(time_low, 6)),
                             shard_high)
        \* --- Low 64 Bits ---
        shard_low   == BitAnd(shard_id_64, Mask(26, 64))
        low_64      == BitOr(BitOr(Shl(NatToWord(2, 64), 62),
                                   Shl(shard_low, 36)),
                             rnd_val)
    IN  BitOr(Shl(Cast(high_64, 128), 64), Cast(low_64, 128))

\* build with the limit itself refused (>= for >).
build_inclusive(micros, shard_id, entropy) ==
    IF ~Less(micros, MAX_TIME_MICROS) THEN Err("TimeOverflow", 0)
    ELSE LET rng     == SimpleRng_new(entropy.now, entropy.ptr)
             rnd_val == BitAnd(next_u64(rng).out, MAX_RANDOM)
         IN  Ok(pack(micros, shard_id, rnd_val))

\* MicroShardUUID::build.  entropy holds what SimpleRng::new reads.
build(micros, shard_id, entropy) ==
    IF Less(MAX_TIME_MICROS, micros) THEN Err("TimeOverflow", 0)
    ELSE LET rng     == SimpleRng_new(entropy.now, entropy.ptr)
             rnd_val == BitAnd(next_u64(rng).out, MAX_RANDOM)
         IN  Ok(pack(micros, shard_id, rnd_val))

from_micros(micros, shard_id, entropy) ==
    LET v == validate_shard(shard_id)
    IN  IF ~IsOk(v) THEN v ELSE build(micros, shard_id, entropy)

\* MicroShardUUID::generate.  clock is what SystemTime::now() answers: the
\* time since the epoch in microseconds (u128), or an instant before it.
generate(shard_id, clock, entropy) ==
    LET v == validate_shard(shard_id)
    IN  IF ~IsOk(v) THEN v
        ELSE IF clock.before_epoch THEN Err("SystemTimeError", 0)
        ELSE build(Cast(clock.micros, 64), shard_id, entropy)

\* from_u128 with the variant checked before the version.
from_u128_variant_first(v) ==
    LET version == WordToNat(Cast(BitAnd(Shr(v, 76), Mask(4, 128)), 8))
        variant == WordToNat(Cast(BitAnd(Shr(v, 62), Mask(2, 128)), 8))
    IN  IF variant # 2 THEN Err("InvalidVariant", variant)
        ELSE IF version # 8 THEN Err("InvalidVersion", version)
        ELSE Ok(v)

from_u128(v) ==
    LET version == WordToNat(Cast(BitAnd(Shr(v, 76), Mask(4, 128)), 8))
        variant == WordToNat(Cast(BitAnd(Shr(v, 62), Mask(2, 128)), 8))
    IN  IF version # 8 THEN Err("InvalidVersion", version)
        ELSE IF variant # 2 THEN Err("InvalidVariant", variant)
        ELSE Ok(v)

\* u128::from_be_bytes: the first byte is the most significant.
RECURSIVE from_be_bytes_from(_, _, _)
from_be_bytes_from(bytes, i, acc) ==
    IF i > Len(bytes) THEN acc
    ELSE from_be_bytes_from(bytes, i + 1,
                            BitOr(Shl(acc, 8), NatToWord(bytes[i], 128)))

\* u128::from_le_bytes in its place: the first byte least significant.
from_le_bytes(bytes) ==
    from_be_bytes_from([j \in 1..16 |-> bytes[17 - j]], 1, Zeros(128))

from_be_bytes(bytes) == from_be_bytes_from(bytes, 1, Zeros(128))

\* u128::to_be_bytes.
to_be_bytes(v) ==
    Tup([j \in 1..16 |-> WordToNat(Cast(Shr(v, 8 * (16 - j)), 8))], 16)

from_bytes(bytes) == from_u128(from_be_bytes(bytes))

as_u128(id) == id

as_bytes(id) == to_be_bytes(id)

shard_id(id) ==
    LET high       == Cast(Shr(id, 64), 64)
        low        == Cast(id, 64)
        shard_high == BitAnd(high, Mask(6, 64))
        shard_low  == BitAnd(Shr(low, 36), Mask(26, 64))
    IN  Cast(BitOr(Shl(shard_high, 26), shard_low), 32)

\* timestamp_micros with a time_low mask of 0x1F.
timestamp_micros_lowmask(id) ==
    LET high      == Cast(Shr(id, 64), 64)
        time_high == BitAnd(Shr(high, 16), Mask(48, 64))
        time_low  == BitAnd(Shr(high, 6), Mask(5, 64))
    IN  BitOr(Shl(time_high, 6), time_low)

timestamp_micros(id) ==
    LET high      == Cast(Shr(id, 64), 64)
        time_high == BitAnd(Shr(high, 16), Mask(48, 64))
        time_low  == BitAnd(Shr(high, 6), Mask(6, 64))
    IN  BitOr(Shl(time_high, 6), time_low)

\* "{:02x}" of one byte.
HexDigits == <<"0", "1", "2", "3", "4", "5", "6", "7",
               "8", "9", "a", "b", "c", "d", "e", "f">>

Hex02(b) == <<HexDigits[(b \div 16) + 1], HexDigits[(b % 16) + 1]>>

\* impl fmt::Display for MicroShardUUID: the 8-4-4-4-12 text.
to_string(id) ==
    LET b == as_bytes(id)
    IN  Hex02(b[1]) \o Hex02(b[2]) \o Hex02(b[3]) \o Hex02(b[4]) \o <<"-">>
        \o Hex02(b[5]) \o Hex02(b[6]) \o <<"-">>
        \o Hex02(b[7]) \o Hex02(b[8]) \o <<"-">>
        \o Hex02(b[9]) \o Hex02(b[10]) \o <<"-">>
        \o Hex02(b[11]) \o Hex02(b[12]) \o Hex02(b[13])
        \o Hex02(b[14]) \o Hex02(b[15]) \o Hex02(b[16])

\* #[derive(PartialOrd, Ord)] on MicroShardUUID(u128): a < b.
lt(a, b) == Less(a, b)

\* The byte of a character of the canonical text.
ByteCode(c) ==
    IF c = "-" THEN 45
    ELSE LET k == CHOOSE n \in 1..16 : HexDigits[n] = c
         IN  IF k <= 10 THEN 47 + k ELSE 86 + k

\* a < b on texts (String's Ord): the first differing byte decides, and a
\* proper prefix is smaller.
RECURSIVE str_lt_from(_, _, _)
str_lt_from(a, b, i) ==
    IF i > Len(b) THEN FALSE
    ELSE IF i > Len(a) THEN TRUE
    ELSE IF a[i] # b[i] THEN ByteCode(a[i]) < ByteCode(b[i])
    ELSE str_lt_from(a, b, i + 1)

str_lt(a, b) == str_lt_from(a, b, 1)

(***************************************************************************)
(* Internal: Zero-Dependency Date/Time Logic                               *)
(***************************************************************************)
\* Rust's / and % on signed integers truncate toward zero.
TDiv(a, b) == IF a >= 0 THEN a \div b ELSE -((-a) \div b)

TRem(a, b) == a - b * TDiv(a, b)

\* is_leap without the century rule.
is_leap_julian(year) == TRem(year, 4) = 0

is_leap(year) ==
    (TRem(year, 4) = 0 /\ TRem(year, 100) # 0) \/ (TRem(year, 400) = 0)

\* days_from_civil without the century corrections.
days_from_civil_julian(y) ==
    LET y1 == y - 1
    IN  y1 * 365 + TDiv(y1, 4)

days_from_civil(y) ==
    LET y1 == y - 1
    IN  y1 * 365 + TDiv(y1, 4) - TDiv(y1, 100) + TDiv(y1, 400)

DAYS_BEFORE == <<0, 31, 59, 90, 120, 151, 181, 212, 243, 273, 304, 334>>

date_to_days(y, m, d) ==
    LET days0 == days_from_civil(y)
        days1 == days0 - 719162
        days2 == days1 + DAYS_BEFORE[(m - 1) + 1]
        days3 == IF m > 2 /\ is_leap(y) THEN days2 + 1 ELSE days2
    IN  days3 + (d - 1)

\* The civil date and the time of day of a day count and the seconds into
\* that day: the body of unix_to_civil after its first three lines.
civil_from_days(days, rem_sec) ==
    LET hour    == rem_sec \div 3600
        min     == (rem_sec % 3600) \div 60
        sec     == rem_sec % 60
        z       == days + 719468
        era     == TDiv(IF z >= 0 THEN z ELSE z - 146096, 146097)
        doe     == z - era * 146097
        yoe     == (doe - doe \div 1460 + doe \div 36524 - doe \div 146096) \div 365
        y0      == yoe + era * 400
        doy     == doe - (365 * yoe + yoe \div 4 - yoe \div 100)
        mp      == (5 * doy + 2) \div 153
        d       == doy - (153 * mp + 2) \div 5 + 1
        m       == IF mp < 10 THEN mp + 3 ELSE mp - 9
        y       == y0 + (IF m <= 2 THEN 1 ELSE 0)
    IN  [year |-> y, month |-> m, day |-> d, hour |-> hour, min |-> min, sec |-> sec]

\* unix_to_civil(ts: u64).  The day count is held as a number: it is below
\* 2^31 for every ts that to_iso_string passes (a 54-bit count of
\* microseconds divided by 1_000_000).
unix_to_civil_of(dm) == civil_from_days(WordToNat(dm.q), dm.r)

unix_to_civil(ts) == unix_to_civil_of(DivMod(ts, 86400))

(***************************************************************************)
(* Texts.  A text is its sequence of UTF-8 bytes.  An ASCII byte is the    *)
(* one-character string of its character; the two bytes of a two-byte      *)
(* character are written "C3" (the lead byte) and "A9" (the continuation   *)
(* byte).                                                                  *)
(***************************************************************************)
Digits == <<"0", "1", "2", "3", "4", "5", "6", "7", "8", "9">>

IsDigit(c) == \E k \in 1..10 : Digits[k] = c

DigitVal(c) == (CHOOSE k \in 1..10 : Digits[k] = c) - 1

\* str::is_char_boundary: offset i (0-based) does not fall inside a
\* character.
is_char_boundary(s, i) ==
    \/ i = 0
    \/ i = Len(s)
    \/ (i < Len(s) /\ s[i + 1] # "A9")

\* The decimal digits of n >= 0, without padding.
RECURSIVE DecimalText(_)
DecimalText(n) ==
    IF n < 10 THEN <<Digits[n + 1]>>
    ELSE DecimalText(n \div 10) \o <<Digits[(n % 10) + 1]>>

\* "{:0w}" of a number n >= 0: zero-padded to at least w characters.
RECURSIVE PadZero(_, _)
PadZero(t, w) == IF Len(t) >= w THEN t ELSE PadZero(<<"0">> \o t, w)

Fmt(n, w) == PadZero(DecimalText(n), w)

\* str::parse::<i32> (signed) and str::parse::<u32> on a slice of at most
\* four bytes: an optional sign ('+', and '-' for a signed type) and then
\* one or more ASCII digits.
RECURSIVE DigitsValue(_, _, _)
DigitsValue(s, i, acc) ==
    IF i > Len(s) THEN acc ELSE DigitsValue(s, i + 1, 10 * acc + DigitVal(s[i]))

parse_int(s, signed) ==
    IF s = <<>> THEN Err("InvalidIsoFormat", 0)
    ELSE IF s = <<"+">> \/ s = <<"-">> THEN Err("InvalidIsoFormat", 0)
    ELSE LET neg    == signed /\ s[1] = "-"
             digits == IF s[1] = "+" \/ neg THEN SubSeq(s, 2, Len(s)) ELSE s
         IN  IF \E i \in 1..Len(digits) : ~IsDigit(digits[i])
             THEN Err("InvalidIsoFormat", 0)
             ELSE Ok(IF neg THEN -DigitsValue(digits, 1, 0)
                     ELSE DigitsValue(digits, 1, 0))

\* &iso_str[a..b] (0-based, b exclusive): panics unless both ends are
\* character boundaries within the text and a <= b.
slice(s, a, b) ==
    IF a > b \/ b > Len(s) \/ ~is_char_boundary(s, a) \/ ~is_char_boundary(s, b)
    THEN Panic
    ELSE Ok(SubSeq(s, a + 1, b))

\* slice then parse: what `iso_str[a..b].parse()` does.
parse_chunk(s, a, b, signed) ==
    LET sl == slice(s, a, b)
    IN  IF ~IsOk(sl) THEN sl ELSE parse_int(sl.v, signed)

\* iso_str.find('Z'): the 0-based offset of the first 'Z', or -1 for None.
RECURSIVE find_from(_, _, _)
find_from(s, c, i) ==
    IF i > Len(s) THEN -1
    ELSE IF s[i] = c THEN i - 1
    ELSE find_from(s, c, i + 1)

\* The loop with a multiplier that stays at 1 after the sixth digit.
RECURSIVE parse_frac_all_digits(_, _, _, _)
parse_frac_all_digits(fs, i, multiplier, micros) ==
    IF i > Len(fs) THEN Ok(micros)
    ELSE IF ~IsDigit(fs[i]) THEN Err("InvalidIsoFormat", 0)
    ELSE parse_frac_all_digits(fs, i + 1,
                               IF multiplier > 1 THEN multiplier \div 10 ELSE 1,
                               micros + DigitVal(fs[i]) * multiplier)

\* The loop over frac_str.chars(): the microseconds, or the error.
RECURSIVE parse_frac(_, _, _, _)
parse_frac(fs, i, multiplier, micros) ==
    IF i > Len(fs) THEN Ok(micros)
    ELSE IF ~IsDigit(fs[i]) THEN Err("InvalidIsoFormat", 0)
    ELSE IF multiplier >= 1
         THEN parse_frac(fs, i + 1, multiplier \div 10,
                         micros + DigitVal(fs[i]) * multiplier)
         ELSE parse_frac(fs, i + 1, multiplier, micros)

\* Steps 4 to 6 of parse_iso_strict, once the six numbers are parsed.
parse_iso_fields(s, year, month, day, hour, min, sec) ==
    IF month < 1 \/ month > 12 THEN Err("InvalidIsoFormat", 0)
    ELSE IF hour > 23 \/ min > 59 \/ sec > 60 THEN Err("InvalidIsoFormat", 0)
    ELSE
    LET days_in_month ==
            IF month \in {4, 6, 9, 11} THEN 30
            ELSE IF month = 2 THEN (IF is_leap(year) THEN 29 ELSE 28)
            ELSE 31
    IN
    IF day < 1 \/ day > days_in_month THEN Err("InvalidIsoFormat", 0)
    ELSE
    LET end0     == find_from(s, "Z", 1)
        end      == IF end0 = -1 THEN Len(s) ELSE end0
        frac_str == slice(s, 20, end)
        frac     == IF Len(s) > 20
                    THEN IF s[20] # "." THEN Err("InvalidIsoFormat", 0)
                         ELSE IF ~IsOk(frac_str) THEN frac_str
                         ELSE parse_frac(frac_str.v, 1, 100000, 0)
                    ELSE Ok(0)
    IN
    IF ~IsOk(frac) THEN frac
    ELSE
    LET days_since_epoch == date_to_days(year, month, day)
    IN
    IF days_since_epoch < 0 THEN Err("InvalidIsoFormat", 0)
    ELSE
    LET seconds == AddSmall(MulSmall(NatToWord(days_since_epoch, 64), 86400),
                            hour * 3600 + min * 60 + sec)
    IN  Ok(AddSmall(MulSmall(seconds, 1000000), frac.v))

\* parse_iso_strict: the microseconds since the epoch (a u64), an error, or
\* a panic.  Each `?` returns the first failure.
parse_iso_strict(s) ==
    IF Len(s) < 20 THEN Err("InvalidIsoFormat", 0)
    ELSE IF s[5] # "-" \/ s[8] # "-" \/ s[11] # "T" \/ s[14] # ":" \/ s[17] # ":"
    THEN Err("InvalidIsoFormat", 0)
    ELSE
    LET year  == parse_chunk(s, 0, 4, TRUE)
        month == parse_chunk(s, 5, 7, FALSE)
        day   == parse_chunk(s, 8, 10, FALSE)
        hour  == parse_chunk(s, 11, 13, FALSE)
        min   == parse_chunk(s, 14, 16, FALSE)
        sec   == parse_chunk(s, 17, 19, FALSE)
    IN  IF ~IsOk(year) THEN year
        ELSE IF ~IsOk(month) THEN month
        ELSE IF ~IsOk(day) THEN day
        ELSE IF ~IsOk(hour) THEN hour
        ELSE IF ~IsOk(min) THEN min
        ELSE IF ~IsOk(sec) THEN sec
        ELSE parse_iso_fields(s, year.v, month.v, day.v, hour.v, min.v, sec.v)

from_iso(iso_str, shard, entropy) ==
    LET v == validate_shard(shard)
    IN  IF ~IsOk(v) THEN v
        ELSE LET micros == parse_iso_strict(iso_str)
             IN  IF ~IsOk(micros) THEN micros
                 ELSE build(micros.v, shard, entropy)

\* The format!() call with "{:03}" for the microseconds.
iso_format_millis(c, micros) ==
    Fmt(c.year, 4) \o <<"-">> \o Fmt(c.month, 2) \o <<"-">> \o Fmt(c.day, 2)
    \o <<"T">> \o Fmt(c.hour, 2) \o <<":">> \o Fmt(c.min, 2) \o <<":">>
    \o Fmt(c.sec, 2) \o <<".">> \o Fmt(micros, 3) \o <<"Z">>

\* The format!() call of to_iso_string:
\* "{:04}-{:02}-{:02}T{:02}:{:02}:{:02}.{:06}Z".
iso_format(c, micros) ==
    Fmt(c.year, 4) \o <<"-">> \o Fmt(c.month, 2) \o <<"-">> \o Fmt(c.day, 2)
    \o <<"T">> \o Fmt(c.hour, 2) \o <<":">> \o Fmt(c.min, 2) \o <<":">>
    \o Fmt(c.sec, 2) \o <<".">> \o Fmt(micros, 6) \o <<"Z">>

\* seconds = total_micros / 1_000_000 and micros = total_micros % 1_000_000.
to_iso_string_of(dm) == iso_format(unix_to_civil(dm.q), dm.r)

\* MicroShardUUID::to_iso_string.
to_iso_string(id) == to_iso_string_of(DivMod(timestamp_micros(id), 1000000))

(***************************************************************************)
(* Inputs                                                                  *)
(***************************************************************************)
\* Timestamps 2^k are drawn for k up to MaxTimeBit (2^54 and 2^55 are over
\* the limit).
MaxTimeBit == 55

\* Timestamps k * Stride are drawn for k up to MaxStride; Stride is
\* (2^54 - 1) / 64 rounded down, so that they span the whole range.
MaxStride == 64

Stride == Dec(<<281, 474, 976, 710, 655>>, 64)

\* Fractions of up to MaxFracLen digits are drawn.
MaxFracLen == 7

Pow2(k, w) == Shl(NatToWord(1, w), k)

TimeSamples ==
    {Pow2(k, 64) : k \in 0..MaxTimeBit}
    \cup {Zeros(64), NatToWord(63, 64), Mask(54, 64), Mask(64, 64),
          AddSmall(Mask(54, 64), 1000),
          Dec(<<1, 765, 503, 300, 123, 456>>, 64)}

ShardSamples ==
    {Zeros(32), NatToWord(99, 32), Pow2(25, 32), Pow2(26, 32), Mask(32, 32),
     Hex(<<\hDEAD, \hBEEF>>, 32)}

\* What SimpleRng::new reads: the clock in nanoseconds and an address.  The
\* first two make the XOR zero.
EntropySamples ==
    {[now |-> Zeros(128), ptr |-> Zeros(64)],
     [now |-> Hex(<<\h1, \h7FFE, \h1234, \h5678, \h9ABC>>, 128),
      ptr |-> Hex(<<\h7FFE, \h1234, \h5678, \h9ABC>>, 64)],
     [now |-> Dec(<<1, 765, 503, 300, 123, 456, 789>>, 128),
      ptr |-> Hex(<<\h7FFC, \h8A51, \h3E40>>, 64)],
     [now |-> Mask(64, 128), ptr |-> Zeros(64)]}

\* What SystemTime::now() answers to generate.
ClockSamples ==
    {[before_epoch |-> TRUE, micros |-> Zeros(128)],
     [before_epoch |-> FALSE, micros |-> Zeros(128)],
     [before_epoch |-> FALSE, micros |-> Dec(<<1, 765, 503, 300, 123, 456>>, 128)],
     [before_epoch |-> FALSE, micros |-> Pow2(54, 128)],
     [before_epoch |-> FALSE, micros |-> AddSmall(Pow2(64, 128), 5)]}

\* Raw 128-bit values: every version nibble and every variant over three
\* fillings of the other bits.
RawSamples ==
    {[i \in 1..128 |->
        IF i \in 77..80 THEN (ver \div 2^(i - 77)) % 2
        ELSE IF i \in 63..64 THEN (var \div 2^(i - 63)) % 2
        ELSE IF fill = 2 THEN i % 2 ELSE fill] :
     ver \in 0..15, var \in 0..3, fill \in 0..2}

\* 16-byte arrays: byte 6 carries the version nibble, byte 8 the variant.
ByteSamples ==
    {[j \in 1..16 |->
        IF j = 7 THEN 16 * ver + (fill % 16)
        ELSE IF j = 9 THEN 64 * var + (fill % 64)
        ELSE (fill * j) % 256] :
     ver \in 0..15, var \in 0..3, fill \in {0, 37, 255}}

Two(n) == <<Digits[(n \div 10) + 1], Digits[(n % 10) + 1]>>

Four(n) == Two(n \div 100) \o Two(n % 100)

\* The text YYYY-MM-DDTHH:MM:SS<frac>Z.
IsoText(y, mo, d, h, mi, sec, frac) ==
    Four(y) \o <<"-">> \o Two(mo) \o <<"-">> \o Two(d) \o <<"T">> \o Two(h)
    \o <<":">> \o Two(mi) \o <<":">> \o Two(sec) \o frac \o <<"Z">>

\* A few texts for the codec's specification.
CodecTexts ==
    {IsoText(2023, 1, 1, 12, 0, 0, <<>>),
     IsoText(2024, 2, 29, 10, 0, 0, <<".", "1", "2", "3", "4", "5", "6">>),
     IsoText(2023, 2, 29, 0, 0, 0, <<>>),
     IsoText(2541, 1, 1, 0, 0, 0, <<>>),
     <<"b", "a", "d", "-", "s", "t", "r", "i", "n", "g">>}

(***************************************************************************)
(* State                                                                   *)
(***************************************************************************)
VARIABLES
    op,     \* the operation called last
    arg,    \* its arguments
    res,    \* what it returned: Ok(id), Err(..) or Panic
    out,    \* what the caller last exported from the identifier it holds
    held,   \* an identifier the caller kept from an earlier call
    ctx     \* what an observer of one execution context has recorded of its
            \* builds: their number, the first seed, and the generator state
            \* the last build left; None while nobody observes

vars == <<op, arg, res, out, held, ctx>>

NoOut == [kind |-> "none"]

Init ==
    /\ op = "none"
    /\ arg = None
    /\ res = None
    /\ out = NoOut
    /\ held = None
    /\ ctx = None

(***************************************************************************)
(* Operations.  A caller that holds no result calls a constructor on       *)
(* inputs of its choice; one that holds an identifier exports it, imports  *)
(* what it exported, keeps it, or releases it.                             *)
(***************************************************************************)
Idle == res = None

\* The observer's record after a constructor returned r: build ran, and
\* drew, exactly when r is an identifier.  Lines 199-200 of build:
\* SimpleRng::new() and one next_u64().
Built(r, entropy) ==
    IF ctx = None \/ ~IsOk(r) THEN ctx
    ELSE LET rng == SimpleRng_new(entropy.now, entropy.ptr)
         IN  [builds |-> ctx.builds + 1,
              seed   |-> IF ctx.builds = 0 THEN rng ELSE ctx.seed,
              state  |-> [state |-> xorshift(rng.state)]]

Generate(shard, clock, entropy) ==
    /\ Idle
    /\ op' = "generate"
    /\ arg' = [shard |-> shard, clock |-> clock, entropy |-> entropy]
    /\ res' = generate(shard, clock, entropy)
    /\ out' = NoOut
    /\ ctx' = Built(res', entropy)
    /\ UNCHANGED held

FromMicros(micros, shard, entropy) ==
    /\ Idle
    /\ op' = "from_micros"
    /\ arg' = [micros |-> micros, shard |-> shard, entropy |-> entropy]
    /\ res' = from_micros(micros, shard, entropy)
    /\ out' = NoOut
    /\ ctx' = Built(res', entropy)
    /\ UNCHANGED held

\* The caller's own inputs when it is idle, and the value it last exported
\* in the given form; src names the identifier an export came from.
Offered(kind, samples) ==
    IF Idle THEN samples ELSE IF out.kind = kind THEN {out.val} ELSE {}

Src(kind) ==
    IF out.kind = kind THEN [tag |-> "Ok", v |-> out.of, by |-> out.by] ELSE None

FromIso(text, shard, entropy) ==
    /\ op' = "from_iso"
    /\ arg' = [text |-> text, shard |-> shard, entropy |-> entropy,
               src |-> Src("iso")]
    /\ res' = from_iso(text, shard, entropy)
    /\ out' = NoOut
    /\ ctx' = Built(res', entropy)
    /\ UNCHANGED held

FromU128(v) ==
    /\ op' = "from_u128"
    /\ arg' = [raw |-> v, src |-> Src("u128")]
    /\ res' = from_u128(v)
    /\ out' = NoOut
    /\ UNCHANGED <<held, ctx>>

FromBytes(bytes) ==
    /\ op' = "from_bytes"
    /\ arg' = [bytes |-> bytes, src |-> Src("bytes")]
    /\ res' = from_bytes(bytes)
    /\ out' = NoOut
    /\ UNCHANGED <<held, ctx>>

\* The caller exports an identifier it built or imported from its own
\* inputs, once.
Exportable ==
    /\ IsOk(res)
    /\ out = NoOut
    /\ (op \in {"from_iso", "from_u128", "from_bytes"} => arg.src = None)

\* The exports of the identifier the last call returned.
AsU128 ==
    /\ Exportable
    /\ out' = [kind |-> "u128", of |-> res.v, by |-> op, val |-> as_u128(res.v)]
    /\ UNCHANGED <<op, arg, res, held, ctx>>

AsBytes ==
    /\ Exportable
    /\ out' = [kind |-> "bytes", of |-> res.v, by |-> op, val |-> as_bytes(res.v)]
    /\ UNCHANGED <<op, arg, res, held, ctx>>

ToIsoString ==
    /\ Exportable
    /\ out' = [kind |-> "iso", of |-> res.v, by |-> op, val |-> to_iso_string(res.v)]
    /\ UNCHANGED <<op, arg, res, held, ctx>>

\* The caller keeps the identifier a constructor returned, and its
\* canonical text, to compare later ones with it.
Keep ==
    /\ IsOk(res)
    /\ op \in {"generate", "from_micros", "from_iso"}
    /\ held = None
    /\ held' = [id |-> res.v, text |-> to_string(res.v), op |-> op, arg |-> arg]
    /\ UNCHANGED <<op, arg, res, out, ctx>>

\* The caller drops the result of the last call.
Release ==
    /\ ~Idle
    /\ op' = "none"
    /\ arg' = None
    /\ res' = None
    /\ out' = NoOut
    /\ UNCHANGED <<held, ctx>>

\* An observer starts to record the builds of this execution context.
Watch ==
    /\ Idle
    /\ ctx = None
    /\ ctx' = [builds |-> 0, seed |-> None, state |-> None]
    /\ UNCHANGED <<op, arg, res, out, held>>

Next ==
    \/ \E s \in ShardSamples, c \in ClockSamples, e \in EntropySamples :
          Generate(s, c, e)
    \/ \E m \in TimeSamples, s \in ShardSamples, e \in EntropySamples :
          FromMicros(m, s, e)
    \/ \E t \in CodecTexts, s \in ShardSamples, e \in EntropySamples :
          Idle /\ FromIso(t, s, e)
    \/ \E v \in Offered("u128", RawSamples) : FromU128(v)
    \/ \E b \in Offered("bytes", ByteSamples) : FromBytes(b)
    \/ AsU128
    \/ AsBytes
    \/ Release

Spec == Init /\ [][Next]_vars

(***************************************************************************)
(* Ordering: the caller keeps one identifier and builds others.            *)
(***************************************************************************)
OrderTimes ==
    {Zeros(64), NatToWord(1, 64), NatToWord(63, 64), NatToWord(64, 64),
     NatToWord(65, 64), Pow2(47, 64), Pow2(53, 64), Mask(54, 64)}

OrderShards == {Zeros(32), Mask(32, 32)}

OrderEntropy ==
    {[now |-> Zeros(128), ptr |-> Zeros(64)],
     [now |-> Mask(64, 128), ptr |-> Zeros(64)]}

NextOrder ==
    \/ \E m \in OrderTimes, s \in OrderShards, e \in OrderEntropy :
          FromMicros(m, s, e)
    \/ Keep
    \/ Release

SpecOrder == Init /\ [][NextOrder]_vars

(***************************************************************************)
(* ISO-8601 texts: the caller parses texts of its choice, renders the      *)
(* identifiers it holds and parses what was rendered.                      *)
(***************************************************************************)
IsoTimes ==
    {Pow2(k, 64) : k \in 0..MaxTimeBit}
    \cup {Mask(k, 64) : k \in 0..MaxTimeBit}
    \cup {MulSmall(Stride, k) : k \in 0..MaxStride}
    \cup {Dec(<<1, 765, 503, 300, 123, 456>>, 64)}

IsoShards == {Zeros(32), Hex(<<\hDEAD, \hBEEF>>, 32)}

IsoEntropy == {[now |-> Mask(64, 128), ptr |-> Zeros(64)]}

IsoYears == {1969, 1970, 2000, 2024, 2100, 2540, 2541, 9999}

IsoDays == {0, 1, 28, 29, 30, 31, 32}

\* Dates at the first and at the last microsecond of the day.
DateTexts ==
    {IsoText(y, mo, d, 0, 0, 0, <<>>) : y \in IsoYears, mo \in 1..12, d \in IsoDays}
    \cup {IsoText(y, mo, d, 23, 59, 59, <<".", "9", "9", "9", "9", "9", "9">>) :
            y \in IsoYears, mo \in 1..12, d \in IsoDays}
    \cup {IsoText(y, mo, 1, 0, 0, 0, <<>>) : y \in IsoYears, mo \in {0, 13, 99}}

\* A '.' and the first n digits of a pattern.
FracPatterns == {<<"1", "2", "3", "4", "5", "6", "7", "8", "9">>,
                 <<"0", "0", "0", "0", "0", "0", "1", "0", "0">>,
                 <<"9", "9", "9", "9", "9", "9", "9", "9", "9">>}

FracSamples ==
    {<<>>} \cup {<<".">> \o SubSeq(pat, 1, n) : pat \in FracPatterns, n \in 0..MaxFracLen}

TimeTexts ==
    {IsoText(2023, 1, 1, h, mi, sec, frac) :
        h \in {0, 23, 24}, mi \in {0, 59, 60}, sec \in {0, 59, 60, 61},
        frac \in {<<>>, <<".", "5">>}}
    \cup {IsoText(2025, 12, 13, 18, 15, 30, frac) : frac \in FracSamples}
    \cup {IsoText(2540, 11, 7, 23, 35, 9, <<".", "4", "8", "1", "9", "8", d>>) :
            d \in {"2", "3", "4"}}
    \cup {IsoText(1970, 1, 1, 0, 0, 0, <<".", "0", "0", "0", "0", "0", d>>) :
            d \in {"0", "1"}}

\* Texts that differ from a base text in one place.
BaseTexts ==
    {IsoText(2023, 1, 1, 12, 0, 0, <<>>),
     IsoText(2023, 13, 1, 12, 0, 0, <<>>),
     IsoText(2024, 2, 29, 23, 59, 59, <<".", "1", "2", "3", "4", "5", "6">>)}

OddBytes == {"+", "-", "x", "Z", " ", ".", "/", "0"}

Replace(t, i, c) == [t EXCEPT ![i] = c]

\* The two bytes at i and i + 1 replaced by one two-byte character.
ReplaceTwo(t, i) == [t EXCEPT ![i] = "C3", ![i + 1] = "A9"]

MalformedTexts ==
    UNION {{Replace(t, i, c) : i \in 1..Len(t), c \in OddBytes}
           \cup {ReplaceTwo(t, i) : i \in 1..(Len(t) - 1)}
           \cup {SubSeq(t, 1, n) : n \in 0..(Len(t) - 1)}
           \cup {t \o <<c>> : c \in OddBytes} : t \in BaseTexts}
    \cup {<<"b", "a", "d", "-", "s", "t", "r", "i", "n", "g">>}

IsoTexts == DateTexts \cup TimeTexts \cup MalformedTexts

NextIso ==
    \/ \E m \in IsoTimes, s \in IsoShards, e \in IsoEntropy : FromMicros(m, s, e)
    \/ \E t \in Offered("iso", IsoTexts), s \in IsoShards, e \in IsoEntropy :
          FromIso(t, s, e)
    \/ ToIsoString
    \/ Release

SpecIso == Init /\ [][NextIso]_vars

(***************************************************************************)
(* Entropy source: one execution context builds identifiers one after the  *)
(* other while an observer records the generator.                          *)
(***************************************************************************)
\* At most MaxBuilds builds are observed.
MaxBuilds == 3

RngTimes == {Zeros(64), Mask(54, 64)}

RngShards == {Zeros(32)}

\* Clock readings and addresses: those of EntropySamples, and readings
\* with a single bit set at the ends of the word and around the shift
\* distances 12, 25 and 27 of next_u64.
RngEntropy ==
    EntropySamples
    \cup {[now |-> Pow2(k, 128), ptr |-> Zeros(64)] : k \in {0, 11, 12, 38, 39, 63}}

NextRng ==
    \/ Watch
    \/ \E m \in RngTimes, s \in RngShards, e \in RngEntropy :
          /\ ctx # None
          /\ ctx.builds < MaxBuilds
          /\ FromMicros(m, s, e)
    \/ Release

SpecRng == Init /\ [][NextRng]_vars

(***************************************************************************)
(* Properties                                                              *)
(***************************************************************************)
Constructors == {"generate", "from_micros", "from_iso"}

\* The number held by bits lo..hi (0-based, hi - lo < 31) of a word.
Field(v, lo, hi) ==
    LET S == lo..hi
        RECURSIVE Sum(_)
        Sum(T) == IF T = {} THEN 0
                  ELSE LET k == CHOOSE k \in T : TRUE
                       IN  v[k + 1] * 2^(k - lo) + Sum(T \ {k})
    IN  Sum(S)

\* 2^54 - 1, the largest timestamp: bits 0..53 set.
Limit54 == [i \in 1..64 |-> IF i <= 54 THEN 1 ELSE 0]

InRange(micros) == \A i \in 55..64 : micros[i] = 0

\* C1: for every micros in [0, 2^54-1], every shard id and every draw of
\* the entropy source, from_micros(micros, shard_id) returns an identifier
\* whose timestamp_micros() is micros and whose shard_id() is shard_id.
C1_RoundTrip ==
    (op = "from_micros" /\ InRange(arg.micros)) =>
        /\ IsOk(res)
        /\ timestamp_micros(res.v) = arg.micros
        /\ shard_id(res.v) = arg.shard

\* from_micros was called with the largest timestamp and the largest shard
\* id, and the random field is not zero.
C1_Witness ==
    /\ op = "from_micros"
    /\ arg.micros = Limit54
    /\ arg.shard = [i \in 1..32 |-> 1]
    /\ IsOk(res)
    /\ Field(res.v, 0, 17) # 0

\* C2: every identifier generate, from_micros or from_iso returns has bits
\* 79-76 equal to 8 and bits 63-62 equal to 2, and from_u128 of its
\* as_u128() succeeds with the same identifier.
C2_Markers ==
    /\ (op \in Constructors /\ IsOk(res)) =>
          (Field(res.v, 76, 79) = 8 /\ Field(res.v, 62, 63) = 2)
    /\ (op = "from_u128" /\ IsOk(arg.src) /\ arg.src.by \in Constructors) =>
          res = Ok(arg.src.v)

\* An identifier from_iso built was exported with as_u128 and imported
\* again with from_u128.
C2_Witness ==
    /\ op = "from_u128"
    /\ IsOk(arg.src)
    /\ arg.src.by = "from_iso"
    /\ IsOk(res)

\* C3: an identifier built from a smaller timestamp compares less than one
\* built from a larger timestamp, as a 128-bit number and as canonical
\* text, whatever the shard ids and the random draws.
C3_Monotonic ==
    (held # None /\ op = "from_micros" /\ IsOk(res)) =>
        /\ lt(held.arg.micros, arg.micros) =>
              (lt(held.id, res.v) /\ str_lt(held.text, to_string(res.v)))
        /\ lt(arg.micros, held.arg.micros) =>
              (lt(res.v, held.id) /\ str_lt(to_string(res.v), held.text))

\* The kept identifier has the smaller timestamp (63 against 64), the
\* larger shard id and the larger random field.
C3_Witness ==
    /\ held # None
    /\ op = "from_micros"
    /\ IsOk(res)
    /\ Field(held.arg.micros, 0, 7) = 63
    /\ Field(arg.micros, 0, 7) = 64
    /\ held.arg.shard = [i \in 1..32 |-> 1]
    /\ arg.shard = [i \in 1..32 |-> 0]
    /\ lt(Cast(res.v, 36), Cast(held.id, 36))

\* C4: from_micros returns an identifier exactly when micros <= 2^54-1, and
\* Err(TimeOverflow) for every larger micros.
C4_Overflow ==
    op = "from_micros" =>
        /\ IsOk(res) <=> InRange(arg.micros)
        /\ ~InRange(arg.micros) => res = Err("TimeOverflow", 0)

\* from_micros was called with 2^54 and with the largest shard id.
C4_Witness ==
    /\ op = "from_micros"
    /\ arg.micros = [i \in 1..64 |-> IF i = 55 THEN 1 ELSE 0]
    /\ arg.shard = [i \in 1..32 |-> 1]
    /\ res = Err("TimeOverflow", 0)

\* C5: from_u128(v) is Ok(v) exactly when bits 79-76 are 8 and bits 63-62
\* are 2; otherwise InvalidVersion(observed version) when the version is
\* not 8, and InvalidVariant(observed variant) when only the variant is
\* wrong.
C5_StrictImport ==
    op = "from_u128" =>
        LET version == Field(arg.raw, 76, 79)
            variant == Field(arg.raw, 62, 63)
        IN  res = IF version # 8 THEN Err("InvalidVersion", version)
                  ELSE IF variant # 2 THEN Err("InvalidVariant", variant)
                  ELSE Ok(arg.raw)

\* from_u128 was given a value with both markers wrong.
C5_Witness ==
    /\ op = "from_u128"
    /\ Field(arg.raw, 76, 79) = 15
    /\ Field(arg.raw, 62, 63) = 3
    /\ res = Err("InvalidVersion", 15)

\* The 128-bit value whose big-endian encoding is b: byte 0 holds bits
\* 127-120.
BigEndianValue(b) ==
    [i \in 1..128 |-> (b[16 - ((i - 1) \div 8)] \div 2^((i - 1) % 8)) % 2]

\* C6: as_bytes is the big-endian encoding, from_bytes of it returns the
\* identifier, and from_bytes(b) is from_u128 of the big-endian value of b.
C6_Bytes ==
    /\ out.kind = "bytes" => BigEndianValue(out.val) = out.of
    /\ op = "from_bytes" =>
          /\ res = from_u128(BigEndianValue(arg.bytes))
          /\ IsOk(arg.src) => res = Ok(arg.src.v)

\* The bytes of an identifier a constructor built were imported again.
C6_Witness ==
    /\ op = "from_bytes"
    /\ IsOk(arg.src)
    /\ arg.src.by = "from_micros"
    /\ res = Ok(arg.src.v)
    /\ arg.bytes[1] # arg.bytes[16]

(***************************************************************************)
(* Properties of the ISO-8601 texts.  The shape of a text, the calendar    *)
(* and the order of texts are stated here on their own, apart from the     *)
(* parser and the formatter.                                               *)
(***************************************************************************)
\* The characters of a text: the continuation byte of a two-byte character
\* belongs to the character its lead byte starts.
Chars(t) == SelectSeq(t, LAMBDA c : c # "A9")

DigitPositions == {1, 2, 3, 4, 6, 7, 9, 10, 12, 13, 15, 16, 18, 19}

Separators(t) ==
    t[5] = "-" /\ t[8] = "-" /\ t[11] = "T" /\ t[14] = ":" /\ t[17] = ":"

AllDigits(t, S) == \A i \in S : IsDigit(t[i])

\* The number the decimal digits at positions a..b of t spell.
NumberAt(t, a, b) == DigitsValue(SubSeq(t, a, b), 1, 0)

\* YYYY-MM-DDTHH:MM:SS[.f...]Z and nothing else.
WellFormed(t) ==
    /\ Len(t) >= 20
    /\ AllDigits(t, DigitPositions)
    /\ Separators(t)
    /\ t[Len(t)] = "Z"
    /\ Len(t) > 20 => (t[20] = "." /\ AllDigits(t, 21..(Len(t) - 1)))

LeapYear(y) == (y % 4 = 0 /\ y % 100 # 0) \/ (y % 400 = 0)

DaysIn(y, m) ==
    IF m \in {4, 6, 9, 11} THEN 30
    ELSE IF m = 2 THEN (IF LeapYear(y) THEN 29 ELSE 28)
    ELSE 31

\* The text names a day of the calendar and a time of that day.
ValidDateTime(t, max_sec) ==
    /\ NumberAt(t, 6, 7) \in 1..12
    /\ NumberAt(t, 9, 10) \in 1..DaysIn(NumberAt(t, 1, 4), NumberAt(t, 6, 7))
    /\ NumberAt(t, 12, 13) <= 23
    /\ NumberAt(t, 15, 16) <= 59
    /\ NumberAt(t, 18, 19) <= max_sec

\* a <= b for two texts of the same shape: their digits decide, in order.
RECURSIVE TextLeqFrom(_, _, _)
TextLeqFrom(a, b, i) ==
    IF i > Len(a) THEN TRUE
    ELSE IF a[i] # b[i] THEN DigitVal(a[i]) < DigitVal(b[i])
    ELSE TextLeqFrom(a, b, i + 1)

\* The text of the epoch and of the last microsecond, 2^54 - 1.
EpochText == IsoText(1970, 1, 1, 0, 0, 0, <<".", "0", "0", "0", "0", "0", "0">>)

LimitText == IsoText(2540, 11, 7, 23, 35, 9, <<".", "4", "8", "1", "9", "8", "3">>)

\* YYYY-MM-DDTHH:MM:SS.ffffffZ, a valid date and time with second <= 59
\* between the epoch and the limit.
Canonical(t) ==
    /\ Len(t) = 27
    /\ WellFormed(t)
    /\ ValidDateTime(t, 59)
    /\ TextLeqFrom(EpochText, t, 1)
    /\ TextLeqFrom(t, LimitText, 1)

\* t with ".000000" put before its 'Z'.
WithZeroFraction(t) ==
    SubSeq(t, 1, 19) \o <<".", "0", "0", "0", "0", "0", "0", "Z">>

\* C7: parsing the text to_iso_string renders for an identifier succeeds
\* and gives an identifier with the same timestamp_micros(), for every
\* timestamp in [0, 2^54-1].
C7_IsoRoundTrip ==
    (op = "from_iso" /\ IsOk(arg.src)) =>
        /\ IsOk(res)
        /\ timestamp_micros(res.v) = timestamp_micros(arg.src.v)

\* The text of the identifier from_micros built for 2^54 - 1 was parsed.
C7_Witness ==
    /\ op = "from_iso"
    /\ IsOk(arg.src)
    /\ arg.src.by = "from_micros"
    /\ timestamp_micros(arg.src.v) = Limit54
    /\ arg.text = LimitText
    /\ IsOk(res)

\* C8: from_iso of a canonical text succeeds and to_iso_string of the
\* result is that text; for a valid text without a fraction it is the
\* text with ".000000" put before the 'Z'.
C8_Canonical ==
    (op = "from_iso" /\ arg.src = None) =>
        /\ Canonical(arg.text) =>
              (IsOk(res) /\ (out.kind = "iso" => out.val = arg.text))
        /\ (/\ Len(arg.text) = 20
            /\ WellFormed(arg.text)
            /\ Canonical(WithZeroFraction(arg.text))) =>
              (IsOk(res) /\ (out.kind = "iso" => out.val = WithZeroFraction(arg.text)))

\* The last microsecond of a leap day was parsed and rendered.
C8_Witness ==
    /\ op = "from_iso"
    /\ arg.src = None
    /\ arg.text = IsoText(2024, 2, 29, 23, 59, 59, <<".", "9", "9", "9", "9", "9", "9">>)
    /\ out.kind = "iso"
    /\ out.val = arg.text

\* C9: from_iso succeeds only on a text of the pattern
\* YYYY-MM-DDTHH:MM:SS[.f...]Z (four and two decimal digits, an optional
\* '.' and digits, a final 'Z' and nothing after it), and every other text
\* is rejected with InvalidIsoFormat.
C9_ExactPattern ==
    op = "from_iso" =>
        /\ IsOk(res) => WellFormed(arg.text)
        /\ ~WellFormed(arg.text) => res = Err("InvalidIsoFormat", 0)

\* from_iso accepted a text whose month is written "+1".
C9_Witness ==
    /\ op = "from_iso"
    /\ Len(arg.text) = 20
    /\ arg.text[6] = "+"
    /\ arg.text[20] = "Z"
    /\ IsOk(res)

\* The text must be rejected: it is short, a separator is wrong, or a field
\* written in decimal digits is out of range.
MustReject(t) ==
    \/ Len(t) < 20
    \/ /\ Len(t) >= 20
       /\ \/ ~Separators(t)
          \/ AllDigits(t, {6, 7}) /\ NumberAt(t, 6, 7) \notin 1..12
          \/ AllDigits(t, {12, 13}) /\ NumberAt(t, 12, 13) > 23
          \/ AllDigits(t, {15, 16}) /\ NumberAt(t, 15, 16) > 59
          \/ AllDigits(t, {18, 19}) /\ NumberAt(t, 18, 19) > 60
          \/ /\ AllDigits(t, {1, 2, 3, 4, 6, 7, 9, 10})
             /\ NumberAt(t, 6, 7) \in 1..12
             /\ NumberAt(t, 9, 10) \notin
                    1..DaysIn(NumberAt(t, 1, 4), NumberAt(t, 6, 7))

\* A text of the pattern with second 60, valid otherwise and below the
\* limit.
LeapSecond(t) ==
    /\ WellFormed(t)
    /\ ValidDateTime(t, 60)
    /\ NumberAt(t, 18, 19) = 60
    /\ NumberAt(t, 1, 4) \in 1970..2539

\* C10: from_iso returns Err(InvalidIsoFormat) for every text shorter than
\* 20 characters, with a wrong separator, or with a month, hour, minute,
\* second or day out of range; a text with second 60 is accepted.
C10_Rejects ==
    op = "from_iso" =>
        /\ MustReject(Chars(arg.text)) => res = Err("InvalidIsoFormat", 0)
        /\ LeapSecond(arg.text) => IsOk(res)

\* from_iso did not return for a text of 19 characters whose month is 13.
C10_Witness ==
    /\ op = "from_iso"
    /\ Len(Chars(arg.text)) = 19
    /\ AllDigits(arg.text, {6, 7})
    /\ NumberAt(arg.text, 6, 7) = 13
    /\ res = Panic

\* C11: no operation panics: from_iso returns Ok or a typed Err for every
\* text (two-byte characters at any offset included), and so do
\* from_micros, from_u128 and from_bytes for every argument.
C11_NoPanic ==
    op \in {"from_iso", "from_micros", "from_u128", "from_bytes"} =>
        res.tag \in {"Ok", "Err"}

\* from_iso did not return for a text of 27 bytes with a valid date and a
\* two-byte character over bytes 18 and 19.
C11_Witness ==
    /\ op = "from_iso"
    /\ Len(arg.text) = 27
    /\ arg.text[19] = "C3"
    /\ arg.text[20] = "A9"
    /\ AllDigits(arg.text, {6, 7})
    /\ NumberAt(arg.text, 6, 7) = 2
    /\ res = Panic

\* The digits of the fraction of a well-formed text.
FractionDigits(t) == SubSeq(t, 21, Len(t) - 1)

\* The first min(n, 6) of n digits, right-padded with zeros to six digits,
\* read as a decimal number.
SixDigits(ds) ==
    LET k == IF Len(ds) < 6 THEN Len(ds) ELSE 6
    IN  DigitsValue(SubSeq(ds, 1, k) \o [j \in 1..(6 - k) |-> "0"], 1, 0)

\* The microsecond component of an identifier's timestamp.
MicrosOf(id) == DivMod(timestamp_micros(id), 1000000).r

\* C12: in a successfully parsed text the microsecond component is the
\* first min(n, 6) digits of the fraction right-padded with zeros to six
\* digits; later digits change nothing, and without a fraction it is 0.
C12_Fraction ==
    (op = "from_iso" /\ IsOk(res) /\ WellFormed(arg.text)) =>
        /\ Len(arg.text) = 20 => MicrosOf(res.v) = 0
        /\ Len(arg.text) > 21 =>
              MicrosOf(res.v) = SixDigits(FractionDigits(arg.text))

\* A text with the seven fraction digits 1234567 was parsed.
C12_Witness ==
    /\ op = "from_iso"
    /\ IsOk(res)
    /\ WellFormed(arg.text)
    /\ Len(arg.text) = 28
    /\ arg.text[27] = "7"
    /\ MicrosOf(res.v) = 123456

\* The generator after k draws from rng.
RECURSIVE Advance(_, _)
Advance(rng, k) ==
    IF k = 0 THEN rng
    ELSE LET next == [state |-> xorshift(rng.state)]
         IN  \* next is worked out before the recursion goes on
             IF Len(next.state) = Len(rng.state) THEN Advance(next, k - 1)
             ELSE rng

\* C13: the generator of an execution context is seeded once, on the first
\* build, and each later build draws from the state the previous draw
\* left: after k builds the state is the seed advanced k times.
C13_SeededOnce ==
    (ctx # None /\ ctx.builds > 0) => ctx.state = Advance(ctx.seed, ctx.builds)

\* The second build of the context read the clock and the address the
\* first had read, and left the state the first had left: the seed
\* advanced once, not twice.
C13_Witness ==
    /\ ctx # None
    /\ ctx.builds = 2
    /\ IsOk(res)
    /\ SimpleRng_new(arg.entropy.now, arg.entropy.ptr) = ctx.seed
    /\ ctx.state = Advance(ctx.seed, 1)
    /\ ctx.state # Advance(ctx.seed, 2)

\* The generator is followed for MaxDraws draws.
MaxDraws == 8

\* C14: the generator state is never zero: SimpleRng::new gives a non-zero
\* state for every clock reading and address (0xCAFEBABE when their XOR is
\* zero), and the state stays non-zero over any number of draws.
C14_NonZero ==
    (op = "from_micros" /\ IsOk(res)) =>
        LET rng == SimpleRng_new(arg.entropy.now, arg.entropy.ptr)
        IN  /\ BitXor(Cast(arg.entropy.now, 64), arg.entropy.ptr) = Zeros(64) =>
                  rng.state = Hex(<<\hCAFE, \hBABE>>, 64)
            /\ \A k \in 0..MaxDraws : Advance(rng, k).state # Zeros(64)
            /\ ctx # None => ctx.state.state # Zeros(64)

\* A build whose clock reading and address are equal and not zero, so that
\* their XOR is zero, was observed as the first of its context.
C14_Witness ==
    /\ op = "from_micros"
    /\ IsOk(res)
    /\ arg.entropy.ptr # Zeros(64)
    /\ BitXor(Cast(arg.entropy.now, 64), arg.entropy.ptr) = Zeros(64)
    /\ ctx # None
    /\ ctx.builds = 1
    /\ ctx.seed.state = Hex(<<\hCAFE, \hBABE>>, 64)
    /\ ctx.state.state # Zeros(64)

(***************************************************************************)
(* Calendar: the two conversions between day counts and civil dates are    *)
(* applied to days and dates of the supported range.                       *)
(***************************************************************************)
\* Every DayStride-th day of the range is drawn.
DayStride == 97

\* MaxBlock days are drawn after each of the days of BlockStarts.
MaxBlock == 100

\* Every YearStride-th year of the range is drawn.
YearStride == 29

\* The days of the range are converted BlockLen days at a time.
BlockLen == 1000

\* The last day that 2^54 - 1 microseconds reach.
LastDay == WordToNat(DivMod(DivMod(MAX_TIME_MICROS, 1000000).q, 86400).q)

\* 1970-01-01, 2000-01-01, 2100-01-01, 2400-01-01 and MaxBlock days before
\* the last day.
BlockStarts == {0, 10957, 47482, 157054, LastDay - MaxBlock}

CalDays ==
    {d \in {k * DayStride : k \in 0..(LastDay \div DayStride)} : d <= LastDay}
    \cup {d \in {b + j : b \in BlockStarts, j \in 0..MaxBlock} : d <= LastDay}

CalYears ==
    {y \in {1970 + k * YearStride : k \in 0..(570 \div YearStride)} : y <= 2540}
    \cup {1970, 1972, 2000, 2100, 2200, 2400, 2539, 2540}

\* The dates of the calendar at the ends of the months of CalYears, up to
\* the last day.
CalDates ==
    {c \in [year : CalYears, month : 1..12, day : {1, 2, 27, 28, 29, 30, 31}] :
        /\ c.day <= DaysIn(c.year, c.month)
        /\ (c.year = 2540 => (c.month < 11 \/ (c.month = 11 /\ c.day <= 7)))}

\* The seconds of the start of day d, as unix_to_civil takes them.
DayStart(d) == MulSmall(NatToWord(d, 64), 86400)

UnixToCivil(d) ==
    /\ Idle
    /\ op' = "unix_to_civil"
    /\ arg' = [days |-> d]
    /\ res' = Ok(unix_to_civil(DayStart(d)))
    /\ UNCHANGED <<out, held, ctx>>

DateToDays(c) ==
    /\ Idle
    /\ op' = "date_to_days"
    /\ arg' = c
    /\ res' = Ok(date_to_days(c.year, c.month, c.day))
    /\ UNCHANGED <<out, held, ctx>>

\* The days of block b, all of them, and what unix_to_civil makes of each
\* once it has divided the seconds of the start of the day by 86400.
BlockDays(b) ==
    (b * BlockLen)..(b * BlockLen + BlockLen - 1) \cap 0..LastDay

CivilOfBlock(b) ==
    /\ Idle
    /\ op' = "civil_of_block"
    /\ arg' = [block |-> b]
    /\ res' = Ok([d \in BlockDays(b) |-> civil_from_days(d, 0)])
    /\ UNCHANGED <<out, held, ctx>>

\* The dates of year y up to the last day, all of them, and date_to_days
\* of each.
DatesOfYear(y) ==
    {c \in [year : {y}, month : 1..12, day : 1..31] :
        /\ c.day <= DaysIn(y, c.month)
        /\ (y = 2540 => (c.month < 11 \/ (c.month = 11 /\ c.day <= 7)))}

DaysOfYear(y) ==
    /\ Idle
    /\ op' = "days_of_year"
    /\ arg' = [year |-> y]
    /\ res' = Ok([c \in DatesOfYear(y) |-> date_to_days(c.year, c.month, c.day)])
    /\ UNCHANGED <<out, held, ctx>>

NextCal ==
    \/ \E d \in CalDays : UnixToCivil(d)
    \/ \E c \in CalDates : DateToDays(c)
    \/ \E b \in 0..(LastDay \div BlockLen) : CivilOfBlock(b)
    \/ \E y \in 1970..2540 : DaysOfYear(y)
    \/ Release

SpecCal == Init /\ [][NextCal]_vars

\* A valid date of the calendar at 00:00:00.
ValidMidnight(c) ==
    /\ c.month \in 1..12
    /\ c.day \in 1..DaysIn(c.year, c.month)
    /\ c.hour = 0 /\ c.min = 0 /\ c.sec = 0

SameDate(c, e) == c.year = e.year /\ c.month = e.month /\ c.day = e.day

\* C15: for every day d of the range unix_to_civil(d * 86400) is a valid
\* date at 00:00:00 and date_to_days of it is d; and unix_to_civil of
\* date_to_days of a valid date of the range is that date.
C15_CalendarInverse ==
    /\ op = "unix_to_civil" =>
          /\ ValidMidnight(res.v)
          /\ date_to_days(res.v.year, res.v.month, res.v.day) = arg.days
    /\ op = "date_to_days" =>
          /\ res.v \in 0..LastDay
          /\ SameDate(unix_to_civil(DayStart(res.v)), arg)
    /\ op = "civil_of_block" =>
          \A d \in DOMAIN res.v :
              /\ ValidMidnight(res.v[d])
              /\ date_to_days(res.v[d].year, res.v[d].month, res.v[d].day) = d
    /\ op = "days_of_year" =>
          /\ {res.v[c] : c \in DOMAIN res.v} \subseteq 0..LastDay
          /\ \A c \in DOMAIN res.v : SameDate(civil_from_days(res.v[c], 0), c)

\* The last day of the range was converted: it is 2540-11-07.
C15_Witness ==
    /\ op = "unix_to_civil"
    /\ arg.days = LastDay
    /\ arg.days = 208499
    /\ res.v = [year |-> 2540, month |-> 11, day |-> 7,
                hour |-> 0, min |-> 0, sec |-> 0]

=============================================================================
